---- MODULE Spec2Model ----
(***************************************************************************)
(* Model of src/main.py: the CANMessageHandler overlay store               *)
(* (modified_messages), its two setters, the display of modified messages, *)
(* get_signal_value and the command loop of main().                        *)
(*                                                                         *)
(* cantools is an external library.  The calls the handler makes into it   *)
(* (encode_message, decode_message of an all-zero payload, the lookups by  *)
(* name and by frame id) are modelled by what the library does for a       *)
(* database of plain unsigned signals without choices and without declared *)
(* minimum/maximum, with unique message names and frame ids.               *)
(* scale is the rational sn/sd (sn, sd > 0), offset an integer: the        *)
(* arithmetic of the handler is then exact.  traceback.print_exception(ex) *)
(* is taken to print and return (Python 3.10 or later).                    *)
(***************************************************************************)
EXTENDS Integers, Sequences, FiniteSets, TLC

VARIABLES
    dbc_file,           \* the .dbc file the handler was constructed with
    modified_messages,  \* self.modified_messages: frame id -> (signal name -> raw)
    pc,                 \* main(): "prompt" (at input()), "done" (after break), "crashed"
    line,               \* the input line the last iteration of the loop read
    repeated,           \* whether that line is the one the iteration before read
    ret,                \* what the setter called by that iteration returned
    out,                \* what handle_input printed for that line
    cpc,                \* codec round trip: "idle", "drawn", "placed", "read"
    csig,               \* codec round trip: the signal descriptor under test
    cval,               \* codec round trip: the raw value placed
    cdata,              \* codec round trip: the payload after placement
    cres                \* codec round trip: what the extraction returned

vars == <<dbc_file, modified_messages, pc, line, repeated, ret, out, cpc, csig, cval, cdata, cres>>

mainVars == <<dbc_file, modified_messages, pc, line, repeated, ret, out>>
codecVars == <<cpc, csig, cval, cdata, cres>>

(***************************************************************************)
(* Bounds of the model.                                                    *)
(***************************************************************************)
\* Largest integer the operator types as a value (the smallest is -1).
MaxValue == 4
\* Largest bit length of a signal in the codec round trip.
MaxBitLen == 4
\* Number of payload bytes in the codec round trip.
CodecBytes == 2

None == "None"
Error == "Error"

\* A payload, or the exception of an encode_message that raised.
Encoded(bytes) == [ok |-> TRUE, bytes |-> bytes]
EncodeError == [ok |-> FALSE, bytes |-> << >>]

\* What get_signal_value yields: an integer, None, or an exception.
Value(n) == [kind |-> "value", value |-> n]
NoValue == [kind |-> None, value |-> 0]
Raised == [kind |-> Error, value |-> 0]

Pow2(n) == 2 ^ n

Min(S) == CHOOSE x \in S : \A y \in S : x <= y

\* Bit i (0 = least significant) of the non-negative integer v.
Bit(v, i) == (v \div Pow2(i)) % 2

(***************************************************************************)
(* Descriptors.  Two databases; in each the name "a" is defined by two     *)
(* messages, with different bit lengths.                                   *)
(***************************************************************************)
Sig(n, st, len, num, den, off, order) ==
    [name |-> n, start |-> st, length |-> len, sn |-> num, sd |-> den,
     offset |-> off, byte_order |-> order]

DB1 ==
    << [name |-> "M1", frame_id |-> 256, length |-> 2, signals |->
          << Sig("a", 0, 2, 1, 1, 0, "little_endian"),
             Sig("b", 7, 2, 3, 2, 0, "little_endian") >>],
       [name |-> "M2", frame_id |-> 512, length |-> 2, signals |->
          << Sig("a", 8, 3, 1, 1, 0, "little_endian"),
             Sig("c", 1, 2, 1, 2, 0, "big_endian") >>] >>

DB2 ==
    << [name |-> "M2", frame_id |-> 512, length |-> 2, signals |->
          << Sig("c", 0, 2, 1, 1, 0, "big_endian"),
             Sig("a", 1, 3, 1, 1, 1, "little_endian") >>],
       [name |-> "M1", frame_id |-> 256, length |-> 1, signals |->
          << Sig("a", 0, 2, 1, 1, 0, "little_endian"),
             Sig("b", 4, 2, 1, 1, 0, "little_endian") >>] >>

DbcFiles == {"one.dbc", "two.dbc"}

\* cantools.database.load_file(dbc_file).messages: read once, never written.
db == IF dbc_file = "one.dbc" THEN DB1 ELSE DB2

(***************************************************************************)
(* Input lines, as the tokens user_input.split() yields.  A token is a     *)
(* word, a decimal literal or a 0x literal; int() accepts the last two.    *)
(***************************************************************************)
W(s) == [kind |-> "word", text |-> s, val |-> 0]
D(n) == [kind |-> "dec", text |-> "#", val |-> n]
H(n) == [kind |-> "hex", text |-> "#", val |-> n]

SignalWords == {"a", "b", "c"}
Numbers == {D(n) : n \in -1 .. MaxValue}
ValueTokens == Numbers \cup {H(MaxValue), W("x1")}

Lines ==
    {<<W(w)>> : w \in {"A", "L", "l", "Q", "q", "X"}}
    \cup {<< >>}
    \cup {<<W("s"), W("a")>>}
    \cup {<<W(s), v>> : s \in SignalWords, v \in Numbers}
    \cup {<<W("a"), v>> : v \in ValueTokens}
    \cup {<<W("BOGUS"), D(1)>>}
    \cup {<<W("V"), W(s), v>> : s \in SignalWords, v \in Numbers}
    \cup {<<W("V"), W("b"), v>> : v \in ValueTokens}
    \cup {<<W("V"), W("BOGUS"), D(1)>>}
    \cup {<<W("v"), W("b"), D(3)>>}
    \cup {<<W("X"), W("a"), v>> : v \in {D(1), W("x1")}}
    \cup {<<W("a"), D(1), W("LITTLE_ENDIAN")>>, <<W("c"), D(1), W("BIG_ENDIAN")>>}
    \cup {<<W("V"), W("a"), D(1), D(1)>>}

\* str.upper() on the command words of the model.
Upper(s) ==
    CASE s = "a" -> "A"
      [] s = "l" -> "L"
      [] s = "q" -> "Q"
      [] s = "s" -> "S"
      [] s = "v" -> "V"
      [] OTHER -> s

(***************************************************************************)
(* Lookups in the database.                                                *)
(***************************************************************************)
HasSignal(message, signal_name) ==
    \E i \in DOMAIN message.signals : message.signals[i].name = signal_name

\* Faulty variant: the loop keeps going and the last message that has the signal wins.
find_message_by_signal_last(signal_name) ==
    LET hits == {i \in DOMAIN db : HasSignal(db[i], signal_name)}
    IN  IF hits = {} THEN None ELSE db[CHOOSE i \in hits : \A j \in hits : j <= i].name

\* The name of the first message, in database order, that has the signal.
find_message_by_signal(signal_name) ==
    LET hits == {i \in DOMAIN db : HasSignal(db[i], signal_name)}
    IN  IF hits = {} THEN None ELSE db[Min(hits)].name

get_message_by_name(name) ==
    db[CHOOSE i \in DOMAIN db : db[i].name = name]

get_message_by_frame_id(frame_id) ==
    db[CHOOSE i \in DOMAIN db : db[i].frame_id = frame_id]

\* next((s for s in message.signals if s.name == signal_name), None)
SignalOf(message, signal_name) ==
    LET hits == {i \in DOMAIN message.signals : message.signals[i].name = signal_name}
    IN  message.signals[Min(hits)]

(***************************************************************************)
(* Arithmetic of Python on the rational n/d, d > 0.                        *)
(***************************************************************************)
\* int(n/d): truncation toward zero.
PyInt(n, d) == IF n >= 0 THEN n \div d ELSE -((-n) \div d)

\* round(n/d): to nearest, ties to even.
PyRound(n, d) ==
    LET q == n \div d
        r == n % d
    IN  IF 2 * r < d THEN q
        ELSE IF 2 * r > d THEN q + 1
        ELSE IF q % 2 = 0 THEN q ELSE q + 1

(***************************************************************************)
(* The setters.  Each yields the new overlay, the value returned and what  *)
(* was printed.                                                            *)
(***************************************************************************)
Outcome(mm, r, o) == [mm |-> mm, ret |-> r, out |-> o]

\* Faulty variant: "+=" for "=": the value is added to the one already stored.
Store_accumulate(mm, frame_id, signal_name, raw_value) ==
    LET entry == IF frame_id \in DOMAIN mm THEN mm[frame_id] ELSE << >>
        others == [n \in (DOMAIN entry) \ {signal_name} |-> entry[n]]
        rest == [f \in (DOMAIN mm) \ {frame_id} |-> mm[f]]
        sum == IF signal_name \in DOMAIN entry THEN entry[signal_name] + raw_value
               ELSE raw_value
    IN  (frame_id :> ((signal_name :> sum) @@ others)) @@ rest

\* Faulty variant: the entry is created empty on every set, not only when absent.
Store_fresh_entry(mm, frame_id, signal_name, raw_value) ==
    LET rest == [f \in (DOMAIN mm) \ {frame_id} |-> mm[f]]
    IN  (frame_id :> (signal_name :> raw_value)) @@ rest

\* self.modified_messages[frame_id][signal_name] = raw_value, the entry
\* created empty when the frame id has none.
Store(mm, frame_id, signal_name, raw_value) ==
    LET entry == IF frame_id \in DOMAIN mm THEN mm[frame_id] ELSE << >>
        others == [n \in (DOMAIN entry) \ {signal_name} |-> entry[n]]
        rest == [f \in (DOMAIN mm) \ {frame_id} |-> mm[f]]
    IN  (frame_id :> ((signal_name :> raw_value) @@ others)) @@ rest

\* Faulty variant: max_value is 1 << length, one too many.
update_signal_raw_value_loose(mm, signal_name, raw_value) ==
    LET message_name == find_message_by_signal(signal_name)
    IN  IF message_name = None
        THEN Outcome(mm, "False", "not_found")
        ELSE LET message == get_message_by_name(message_name)
                 signal == SignalOf(message, signal_name)
                 max_value == Pow2(signal.length)
             IN  IF raw_value < 0 \/ raw_value > max_value
                 THEN Outcome(mm, "False", "range_error")
                 ELSE Outcome(Store(mm, message.frame_id, signal_name, raw_value),
                              "True", "updated")

update_signal_raw_value(mm, signal_name, raw_value) ==
    LET message_name == find_message_by_signal(signal_name)
    IN  IF message_name = None
        THEN Outcome(mm, "False", "not_found")
        ELSE LET message == get_message_by_name(message_name)
             IN  IF ~HasSignal(message, signal_name)
                 THEN Outcome(mm, "False", "not_found")
                 ELSE LET signal == SignalOf(message, signal_name)
                          max_value == Pow2(signal.length) - 1
                      IN  IF raw_value < 0 \/ raw_value > max_value
                          THEN Outcome(mm, "False", "range_error")
                          ELSE Outcome(Store(mm, message.frame_id, signal_name, raw_value),
                                       "True", "updated")

\* Faulty variant: the entry of the message is created before the range check.
update_signal_value_early_entry(mm, signal_name, value) ==
    LET message_name == find_message_by_signal(signal_name)
    IN  IF message_name = None
        THEN Outcome(mm, "False", "not_found")
        ELSE LET message == get_message_by_name(message_name)
                 signal == SignalOf(message, signal_name)
                 raw_value == PyInt((value - signal.offset) * signal.sd, signal.sn)
                 max_value == Pow2(signal.length) - 1
                 created == IF message.frame_id \in DOMAIN mm THEN mm
                            ELSE (message.frame_id :> << >>) @@ mm
             IN  IF raw_value < 0 \/ raw_value > max_value
                 THEN Outcome(created, "False", "range_error")
                 ELSE Outcome(Store(mm, message.frame_id, signal_name, raw_value),
                              "True", "updated")

update_signal_value(mm, signal_name, value) ==
    LET message_name == find_message_by_signal(signal_name)
    IN  IF message_name = None
        THEN Outcome(mm, "False", "not_found")
        ELSE LET message == get_message_by_name(message_name)
             IN  IF ~HasSignal(message, signal_name)
                 THEN Outcome(mm, "False", "not_found")
                 ELSE LET signal == SignalOf(message, signal_name)
                          raw_value == PyInt((value - signal.offset) * signal.sd, signal.sn)
                          max_value == Pow2(signal.length) - 1
                      IN  IF raw_value < 0 \/ raw_value > max_value
                          THEN Outcome(mm, "False", "range_error")
                          ELSE Outcome(Store(mm, message.frame_id, signal_name, raw_value),
                                       "True", "updated")

(***************************************************************************)
(* The payload layout of cantools.  Bit k of a payload is bit k % 8 of     *)
(* byte k \div 8.  A little-endian signal has value bit i at start + i.  A *)
(* big-endian signal has its most significant bit at start and runs down   *)
(* the byte, then on from bit 7 of the next byte.                          *)
(***************************************************************************)
SignalBitPos(signal, i) ==
    IF signal.byte_order = "little_endian"
    THEN signal.start + i
    ELSE LET first == 8 * (signal.start \div 8) + (7 - (signal.start % 8))
             p == first + (signal.length - 1 - i)
         IN  8 * (p \div 8) + (7 - (p % 8))

SignalBits(signal) == {SignalBitPos(signal, i) : i \in 0 .. signal.length - 1}

\* The payload of nbytes bytes holding raws[name] in the bits of each signal.
Pack(signals, raws, nbytes) ==
    LET bit(k) ==
            IF \E j \in DOMAIN signals : \E i \in 0 .. signals[j].length - 1 :
                   /\ SignalBitPos(signals[j], i) = k
                   /\ Bit(raws[signals[j].name], i) = 1
            THEN 1 ELSE 0
    IN  [b \in 0 .. nbytes - 1 |->
            bit(8 * b) + 2 * bit(8 * b + 1) + 4 * bit(8 * b + 2) + 8 * bit(8 * b + 3)
            + 16 * bit(8 * b + 4) + 32 * bit(8 * b + 5) + 64 * bit(8 * b + 6)
            + 128 * bit(8 * b + 7)]

\* db.encode_message(message.name, data): every signal of the message must
\* be in data; data[name] is taken as the scaled value and converted with
\* round((value - offset) / scale); a raw value that does not fit raises.
encode_message(message, data) ==
    LET names == {message.signals[j].name : j \in DOMAIN message.signals}
        raw(signal) == PyRound((data[signal.name] - signal.offset) * signal.sd, signal.sn)
        fits(signal) == raw(signal) >= 0 /\ raw(signal) < Pow2(signal.length)
    IN  IF ~(names \subseteq DOMAIN data) THEN EncodeError
        ELSE IF \E j \in DOMAIN message.signals : ~fits(message.signals[j]) THEN EncodeError
        ELSE Encoded(Pack(message.signals,
                          [n \in names |-> raw(SignalOf(message, n))],
                          message.length))

\* db.decode_message(message.name, bytearray(message.length)): raw 0 scaled.
default_data(message) ==
    [n \in {message.signals[j].name : j \in DOMAIN message.signals} |->
        SignalOf(message, n).offset]

\* all_signals = {**default_data, **modified_signals}, then encode_message.
encoded_data(mm, message_id) ==
    LET message == get_message_by_frame_id(message_id)
        defaults == default_data(message)
        all_signals == mm[message_id] @@ defaults
    IN  encode_message(message, all_signals)

\* print_modified_messages: what it prints, or Error when encode_message raises.
print_modified_messages(mm) ==
    IF DOMAIN mm = {} THEN "no_modified"
    ELSE IF \E id \in DOMAIN mm : ~encoded_data(mm, id).ok THEN Error
    ELSE "modified"

\* The loop of get_signal_value over a payload: the bits start .. start +
\* length - 1 in little-endian numbering, whatever the signal's byte order.
Extract(data, signal) ==
    LET start_byte == signal.start \div 8
        start_bit_in_byte == signal.start % 8
        byte_index(i) == start_byte + ((start_bit_in_byte + i) \div 8)
        bit_position(i) == (start_bit_in_byte + i) % 8
        term(i) == ((data[byte_index(i)] \div Pow2(bit_position(i))) % 2) * Pow2(i)
        sum[i \in 0 .. signal.length] ==
            IF i = 0 THEN 0 ELSE sum[i - 1] + term(i - 1)
    IN  IF \E i \in 0 .. signal.length - 1 : byte_index(i) \notin DOMAIN data
        THEN Raised
        ELSE Value(sum[signal.length])

get_signal_value(mm, message_id, signal) ==
    IF message_id \in DOMAIN mm
    THEN LET data == encode_message(get_message_by_frame_id(message_id), mm[message_id])
         IN  IF ~data.ok THEN Raised ELSE Extract(data.bytes, signal)
    ELSE NoValue

(***************************************************************************)
(* handle_input and the loop of main().                                    *)
(***************************************************************************)
IsWord(l, w) == Len(l) = 1 /\ l[1].kind = "word" /\ Upper(l[1].text) = w

\* user_input.upper().startswith('S '): the stripped line begins "S " exactly
\* when its first token is S or s and another token follows.
IsSearch(l) == Len(l) >= 2 /\ l[1].kind = "word" /\ Upper(l[1].text) = "S"

\* The branch of main() and handle_input a line takes.
Branch(l) ==
    IF IsWord(l, "Q") THEN "quit"
    ELSE IF IsWord(l, "A") THEN "all"
    ELSE IF IsWord(l, "L") THEN "modified"
    ELSE IF IsSearch(l) THEN "search"
    ELSE IF Len(l) = 2 THEN "two"
    ELSE IF Len(l) = 3 THEN "three"
    ELSE "other"

\* int(value_str) or int(value_str, 16) succeeds on a literal only.
IsInt(tok) == tok.kind \in {"dec", "hex"}

\* The string a token is when it is used as a signal name.
NameOf(tok) == IF tok.kind = "word" THEN tok.text ELSE "#number"

Invalid(mm) == Outcome(mm, None, "usage")
Silent(mm) == Outcome(mm, None, "nothing")

\* len(data) == 2: signal_name, value_str = data
two_tokens(mm, l) ==
    IF ~IsInt(l[2]) THEN Invalid(mm)
    ELSE update_signal_raw_value(mm, NameOf(l[1]), l[2].val)

\* Faulty variant: a third token naming a byte order makes the line a raw set.
three_tokens_order(mm, l) ==
    IF l[3].kind = "word" /\ l[3].text \in {"LITTLE_ENDIAN", "BIG_ENDIAN"} /\ IsInt(l[2])
    THEN update_signal_raw_value(mm, NameOf(l[1]), l[2].val)
    ELSE IF ~IsInt(l[3]) THEN Invalid(mm)
    ELSE IF l[1].kind = "word" /\ Upper(l[1].text) = "V"
         THEN update_signal_value(mm, NameOf(l[2]), l[3].val)
         ELSE Silent(mm)

\* len(data) == 3: command, signal_name, value_str = data
three_tokens(mm, l) ==
    IF ~IsInt(l[3]) THEN Invalid(mm)
    ELSE IF l[1].kind = "word" /\ Upper(l[1].text) = "V"
         THEN update_signal_value(mm, NameOf(l[2]), l[3].val)
         ELSE Silent(mm)

\* The lines of the model by the branch they take.
QuitLines == {l \in Lines : Branch(l) = "quit"}
AllLines == {l \in Lines : Branch(l) = "all"}
ModifiedLines == {l \in Lines : Branch(l) = "modified"}
SearchLines == {l \in Lines : Branch(l) = "search"}
TwoLines == {l \in Lines : Branch(l) = "two"}
ThreeLines == {l \in Lines : Branch(l) = "three"}
OtherLines == {l \in Lines : Branch(l) = "other"}

Step(l, o) ==
    \E r \in {o} :
    /\ line' = l
    /\ repeated' = (l = line)
    /\ modified_messages' = r.mm
    /\ ret' = r.ret
    /\ out' = r.out
    /\ pc' = "prompt"
    /\ UNCHANGED dbc_file
    /\ UNCHANGED codecVars

Quit ==
    /\ pc = "prompt"
    /\ \E l \in QuitLines :
        /\ line' = l
        /\ repeated' = (l = line)
        /\ pc' = "done"
        /\ ret' = None
        /\ out' = "nothing"
        /\ UNCHANGED <<dbc_file, modified_messages>>
        /\ UNCHANGED codecVars

ShowAll ==
    /\ pc = "prompt"
    /\ \E l \in AllLines :
        /\ Step(l, Outcome(modified_messages, None, "all"))

ShowModified ==
    /\ pc = "prompt"
    /\ \E l \in ModifiedLines :
        /\ LET printed == print_modified_messages(modified_messages)
           IN  /\ line' = l
               /\ repeated' = (l = line)
               /\ ret' = None
               /\ out' = printed
               /\ pc' = IF printed = Error THEN "crashed" ELSE "prompt"
               /\ UNCHANGED <<dbc_file, modified_messages>>
               /\ UNCHANGED codecVars

Search ==
    /\ pc = "prompt"
    /\ \E l \in SearchLines :
        /\ Step(l, Outcome(modified_messages, None, "search"))

SetRaw ==
    /\ pc = "prompt"
    /\ \E l \in TwoLines :
        /\ Step(l, two_tokens(modified_messages, l))

SetPhysical ==
    /\ pc = "prompt"
    /\ \E l \in ThreeLines :
        /\ Step(l, three_tokens(modified_messages, l))

Ignored ==
    /\ pc = "prompt"
    /\ \E l \in OtherLines :
        /\ Step(l, Silent(modified_messages))

(***************************************************************************)
(* The codec on its own: a raw value placed in an all-zero payload with    *)
(* the layout encode_message uses, then read back with the loop of         *)
(* get_signal_value.                                                       *)
(***************************************************************************)
\* The signals that fit a payload of CodecBytes bytes.
CodecSignals ==
    {sig \in {Sig("x", st, len, 1, 1, 0, order) :
                 st \in 0 .. 8 * CodecBytes - 1,
                 len \in 1 .. MaxBitLen,
                 order \in {"little_endian", "big_endian"}} :
        \A k \in SignalBits(sig) : k >= 0 /\ k < 8 * CodecBytes}

CodecIdle ==
    /\ cpc = "idle"
    /\ csig = Sig("x", 0, 1, 1, 1, 0, "little_endian")
    /\ cval = 0
    /\ cdata = << >>
    /\ cres = NoValue

CodecPlace ==
    /\ cpc = "drawn"
    /\ cdata' = Pack(<<csig>>, (csig.name :> cval), CodecBytes)
    /\ cpc' = "placed"
    /\ UNCHANGED <<csig, cval, cres>>
    /\ UNCHANGED mainVars

CodecExtract ==
    /\ cpc = "placed"
    /\ cres' = Extract(cdata, csig)
    /\ cpc' = "read"
    /\ UNCHANGED <<csig, cval, cdata>>
    /\ UNCHANGED mainVars

CodecInit ==
    /\ dbc_file = "one.dbc"
    /\ modified_messages = << >>
    /\ pc = "prompt"
    /\ line = <<W("<start>")>>
    /\ repeated = FALSE
    /\ ret = None
    /\ out = "nothing"
    /\ cpc = "drawn"
    /\ csig \in CodecSignals
    /\ cval \in 0 .. Pow2(csig.length) - 1
    /\ cdata = << >>
    /\ cres = NoValue

CodecNext == CodecPlace \/ CodecExtract

CodecSpec == CodecInit /\ [][CodecNext]_vars

Init ==
    /\ dbc_file \in DbcFiles
    /\ modified_messages = << >>
    /\ pc = "prompt"
    /\ line = <<W("<start>")>>
    /\ repeated = FALSE
    /\ ret = None
    /\ out = "nothing"
    /\ CodecIdle

Next == Quit \/ ShowAll \/ ShowModified \/ Search \/ SetRaw \/ SetPhysical \/ Ignored

Spec == Init /\ [][Next]_vars

(***************************************************************************)
(* Vocabulary of the properties.                                           *)
(***************************************************************************)
\* The first message, in database order, that defines the name.
Defining(n) == {i \in DOMAIN db : HasSignal(db[i], n)}
FirstMessage(n) == db[Min(Defining(n))]
FirstSignal(n) == SignalOf(FirstMessage(n), n)

InRange(v, signal) == v >= 0 /\ v < Pow2(signal.length)

\* The line is a raw set "<name> <integer>".
IsRawSet(l) == Branch(l) = "two" /\ IsInt(l[2])
\* The line is a physical set "V <name> <integer>".
IsPhysicalSet(l) ==
    Branch(l) = "three" /\ IsInt(l[3]) /\ l[1].kind = "word" /\ Upper(l[1].text) = "V"
SetName(l) == IF Len(l) = 2 THEN NameOf(l[1]) ELSE NameOf(l[2])
SetValue(l) == IF Len(l) = 2 THEN l[2].val ELSE l[3].val

\* The raw value the physical set derives by truncation, and by rounding.
TruncatedRaw(l) ==
    PyInt((SetValue(l) - FirstSignal(SetName(l)).offset) * FirstSignal(SetName(l)).sd,
          FirstSignal(SetName(l)).sn)
RoundedRaw(l) ==
    PyRound((SetValue(l) - FirstSignal(SetName(l)).offset) * FirstSignal(SetName(l)).sd,
            FirstSignal(SetName(l)).sn)

\* The value a set is about to write, as the code derives it.
RawForm(l) == IF Len(l) = 2 THEN SetValue(l) ELSE TruncatedRaw(l)

Stored(mm, id, n) == id \in DOMAIN mm /\ n \in DOMAIN mm[id]

(***************************************************************************)
(* C1: every raw value stored in the overlay for a signal of bit length n  *)
(* lies in 0 .. 2^n - 1, whatever commands were issued.                    *)
(***************************************************************************)
C1_StoredRawInRange ==
    \A id \in DOMAIN modified_messages : \A n \in DOMAIN modified_messages[id] :
        /\ HasSignal(get_message_by_frame_id(id), n)
        /\ InRange(modified_messages[id][n], SignalOf(get_message_by_frame_id(id), n))

\* An out-of-range set was just refused while the overlay holds a signal at
\* the largest value its bit length allows.
C1_Witness ==
    /\ out = "range_error"
    /\ \E id \in DOMAIN modified_messages : \E n \in DOMAIN modified_messages[id] :
           modified_messages[id][n]
               = Pow2(SignalOf(get_message_by_frame_id(id), n).length) - 1

(***************************************************************************)
(* C2: a set whose signal name no message defines, or whose raw value is   *)
(* outside 0 .. 2^bit_length - 1, returns failure and leaves the overlay   *)
(* as it was; with an empty overlay 'L' still reports no modified message. *)
(***************************************************************************)
MustReject(l) ==
    /\ IsRawSet(l) \/ IsPhysicalSet(l)
    /\ \/ Defining(SetName(l)) = {}
       \/ ~InRange(RawForm(l), FirstSignal(SetName(l)))

C2_RejectedSetLeavesOverlay ==
    [][MustReject(line')
         => /\ ret' = "False"
            /\ modified_messages' = modified_messages
            /\ (DOMAIN modified_messages = {}
                  => print_modified_messages(modified_messages') = "no_modified")]_vars

\* A physical set was refused for its range while the overlay holds values.
C2_Witness ==
    /\ IsPhysicalSet(line)
    /\ MustReject(line)
    /\ ret = "False"
    /\ DOMAIN modified_messages # {}

(***************************************************************************)
(* C3: for both byte orders, the extraction of get_signal_value reads back *)
(* the value v that was placed in the payload with that byte order.        *)
(***************************************************************************)
C3_RoundTrip == cpc = "read" => cres = Value(cval)

(***************************************************************************)
(* C4: a successful raw set of signal s1 of message m leaves the result of *)
(* get_signal_value(m, s2) as it was, for every other signal s2 of m whose *)
(* bits do not overlap those of s1, also when m had no overlay entry.      *)
(***************************************************************************)
C4_Isolation ==
    [][(IsRawSet(line') /\ ret' = "True")
         => LET m == FirstMessage(SetName(line'))
                s1 == FirstSignal(SetName(line'))
            IN  \A j \in DOMAIN m.signals :
                    (SignalBits(m.signals[j]) \cap SignalBits(s1) = {})
                      => get_signal_value(modified_messages', m.frame_id, m.signals[j])
                           = get_signal_value(modified_messages, m.frame_id, m.signals[j])]_vars

(***************************************************************************)
(* C5: a physical set "V <name> <x>" stores round((x - offset) / scale)    *)
(* and is refused exactly when that rounded value is outside               *)
(* 0 .. 2^bit_length - 1.                                                  *)
(***************************************************************************)
C5_RoundsToNearest ==
    [][(IsPhysicalSet(line') /\ Defining(SetName(line')) # {})
         => IF InRange(RoundedRaw(line'), FirstSignal(SetName(line')))
            THEN /\ ret' = "True"
                 /\ Stored(modified_messages', FirstMessage(SetName(line')).frame_id,
                           SetName(line'))
                 /\ modified_messages'[FirstMessage(SetName(line')).frame_id][SetName(line')]
                      = RoundedRaw(line')
            ELSE /\ ret' = "False"
                 /\ modified_messages' = modified_messages]_vars

(***************************************************************************)
(* C6: every malformed line (an unknown single word, a wrong number of     *)
(* tokens, three tokens not starting with V, a non-numeric value) prints   *)
(* the usage message and the loop prompts again; only 'Q' ends the loop.   *)
(***************************************************************************)
Malformed(l) ==
    \/ Branch(l) = "other"
    \/ Branch(l) = "two" /\ ~IsInt(l[2])
    \/ Branch(l) = "three" /\ ~IsPhysicalSet(l)

C6_MalformedPrintsUsage ==
    [][/\ Malformed(line') => (out' = "usage" /\ pc' = "prompt")
       /\ pc' # "prompt" => Branch(line') = "quit"]_vars

(***************************************************************************)
(* C7: "<signal> <value> <LITTLE_ENDIAN|BIG_ENDIAN>" with a known signal   *)
(* and a value in range stores <value> for <signal> in the overlay.        *)
(***************************************************************************)
IsOrderSet(l) ==
    /\ Len(l) = 3
    /\ l[1].kind = "word" /\ Defining(l[1].text) # {}
    /\ IsInt(l[2]) /\ InRange(l[2].val, FirstSignal(l[1].text))
    /\ l[3].kind = "word" /\ l[3].text \in {"LITTLE_ENDIAN", "BIG_ENDIAN"}

C8_SetRawIdempotent ==
    [][(IsRawSet(line) /\ ret = "True" /\ line' = line)
         => /\ ret' = "True"
            /\ modified_messages' = modified_messages
            /\ \A id \in DOMAIN modified_messages :
                   encoded_data(modified_messages', id) = encoded_data(modified_messages, id)]_vars

\* The same successful raw set was just performed twice in a row.
C8_Witness ==
    /\ IsRawSet(line)
    /\ repeated
    /\ ret = "True"
    /\ Stored(modified_messages, FirstMessage(SetName(line)).frame_id, SetName(line))
    /\ encoded_data(modified_messages, FirstMessage(SetName(line)).frame_id).ok

(***************************************************************************)
(* C9: a message id has no overlay entry until the first successful set of *)
(* one of its signals; an entry, and every signal value in it, stays in    *)
(* every later state.                                                      *)
(***************************************************************************)
C9_EntryLifecycle ==
    /\ DOMAIN modified_messages = {}
    /\ [][/\ \A id \in DOMAIN modified_messages :
                 /\ id \in DOMAIN modified_messages'
                 /\ DOMAIN modified_messages[id] \subseteq DOMAIN modified_messages'[id]
          /\ \A id \in (DOMAIN modified_messages') \ (DOMAIN modified_messages) :
                 /\ IsRawSet(line') \/ IsPhysicalSet(line')
                 /\ ret' = "True"
                 /\ HasSignal(get_message_by_frame_id(id), SetName(line'))
                 /\ DOMAIN modified_messages'[id] = {SetName(line')}]_vars

\* Both messages have an entry, one of them with two signals, and the last
\* command was a refused set.
C9_Witness ==
    /\ Cardinality(DOMAIN modified_messages) = 2
    /\ \E id \in DOMAIN modified_messages : Cardinality(DOMAIN modified_messages[id]) = 2
    /\ ret = "False"

(***************************************************************************)
(* C10: a successful set of a name that several messages define is checked *)
(* against, and written to the entry of, the first of them in database     *)
(* order; the entries of the others are neither created nor changed.       *)
(***************************************************************************)
Ambiguous(n) == Cardinality(Defining(n)) > 1

C10_FirstMatch ==
    [][((IsRawSet(line') \/ IsPhysicalSet(line')) /\ Ambiguous(SetName(line')))
         => /\ ret' = "True" <=> InRange(RawForm(line'), FirstSignal(SetName(line')))
            /\ ret' = "True"
                 => /\ Stored(modified_messages', FirstMessage(SetName(line')).frame_id,
                              SetName(line'))
                    /\ modified_messages'[FirstMessage(SetName(line')).frame_id][SetName(line')]
                         = RawForm(line')
            /\ \A i \in Defining(SetName(line')) \ {Min(Defining(SetName(line')))} :
                   /\ db[i].frame_id \in DOMAIN modified_messages'
                        <=> db[i].frame_id \in DOMAIN modified_messages
                   /\ db[i].frame_id \in DOMAIN modified_messages
                        => modified_messages'[db[i].frame_id]
                             = modified_messages[db[i].frame_id]]_vars

\* A name two messages define was just set, with a value that only the
\* first message's signal admits or refuses, and the other message has an
\* entry of its own.
C10_Witness ==
    /\ IsRawSet(line) \/ IsPhysicalSet(line)
    /\ Ambiguous(SetName(line))
    /\ ret = "True"
    /\ Stored(modified_messages, FirstMessage(SetName(line)).frame_id, SetName(line))
    /\ \E i \in Defining(SetName(line)) \ {Min(Defining(SetName(line)))} :
           /\ db[i].frame_id \in DOMAIN modified_messages
           /\ ~InRange(RawForm(line), SignalOf(db[i], SetName(line)))

====
